---- MODULE Spec2Model ----
(***************************************************************************)
(* Model of the Concerto <-> Claude Code host middleware                   *)
(* (src/agents/claude_code/claude_code_host.py).                           *)
(*                                                                         *)
(* The host reads prompt lines from stdin and writes NDJSON messages to    *)
(* stdout.  Text is modelled as TLA+ strings and handled character by      *)
(* character, JSON text is parsed and rendered by the operators below.     *)
(***************************************************************************)
EXTENDS Integers, Sequences, FiniteSets, TLC

(***************************************************************************)
(* Text helpers (Python str methods used by the host)                      *)
(***************************************************************************)

\* s[i] as a one-character string (i is 1-based)
CharAt(s, i) == IF i >= 1 /\ i <= Len(s) THEN SubSeq(s, i, i) ELSE ""

\* s[i-1:j] clipped to the text, as Python slices are
Slice(s, i, j) == SubSeq(s, i, IF j <= Len(s) THEN j ELSE Len(s))

\* characters removed by str.strip() and skipped by the JSON scanner
IsSpace(c) == c \in {" ", "\t", "\n", "\r", "\f"}

RECURSIVE lstrip(_)
lstrip(s) ==
    IF Len(s) = 0 THEN s
    ELSE IF IsSpace(CharAt(s, 1)) THEN lstrip(SubSeq(s, 2, Len(s)))
    ELSE s

RECURSIVE rstrip(_)
rstrip(s) ==
    IF Len(s) = 0 THEN s
    ELSE IF IsSpace(CharAt(s, Len(s))) THEN rstrip(SubSeq(s, 1, Len(s) - 1))
    ELSE s

\* str.strip()
strip(s) == rstrip(lstrip(s))

UpperChars == "ABCDEFGHIJKLMNOPQRSTUVWXYZ"
LowerChars == "abcdefghijklmnopqrstuvwxyz"

LowerChar(c) ==
    IF \E i \in 1..Len(UpperChars) : CharAt(UpperChars, i) = c
    THEN CharAt(LowerChars, CHOOSE i \in 1..Len(UpperChars) : CharAt(UpperChars, i) = c)
    ELSE c

\* str.lower(); the text is halved so that the evaluation stays shallow
RECURSIVE lower(_)
lower(s) ==
    IF Len(s) <= 1 THEN LowerChar(s)
    ELSE lower(SubSeq(s, 1, Len(s) \div 2))
         \o lower(SubSeq(s, Len(s) \div 2 + 1, Len(s)))

\* the Python test `sub in s`
Contains(s, sub) ==
    \E i \in 1..(Len(s) - Len(sub) + 1) : SubSeq(s, i, i + Len(sub) - 1) = sub

StartsWith(s, prefix) ==
    Len(s) >= Len(prefix) /\ SubSeq(s, 1, Len(prefix)) = prefix

\* str.replace(old, new) for a one-character old
RECURSIVE ReplaceChar(_, _, _)
ReplaceChar(s, old, new) ==
    IF Len(s) <= 1 THEN (IF s = old THEN new ELSE s)
    ELSE ReplaceChar(SubSeq(s, 1, Len(s) \div 2), old, new)
         \o ReplaceChar(SubSeq(s, Len(s) \div 2 + 1, Len(s)), old, new)

\* the least index in lo..hi whose character is in chars, 0 when there is none
RECURSIVE FindFirst(_, _, _, _)
FindFirst(s, chars, lo, hi) ==
    IF lo > hi THEN 0
    ELSE IF lo = hi THEN (IF CharAt(s, lo) \in chars THEN lo ELSE 0)
    ELSE LET mid == (lo + hi) \div 2
             left == FindFirst(s, chars, lo, mid)
         IN  IF left # 0 THEN left ELSE FindFirst(s, chars, mid + 1, hi)

\* sep.join(parts)
RECURSIVE Join(_, _)
Join(parts, sep) ==
    IF Len(parts) = 0 THEN ""
    ELSE IF Len(parts) = 1 THEN parts[1]
    ELSE parts[1] \o sep \o Join(Tail(parts), sep)

\* str.splitlines(): line breaks are \n, \r and \r\n; no trailing empty line
RECURSIVE SplitFrom(_, _)
SplitFrom(s, i) ==
    IF i > Len(s) THEN <<>>
    ELSE LET k == FindFirst(s, {"\n", "\r"}, i, Len(s))
         IN  IF k = 0 THEN <<SubSeq(s, i, Len(s))>>
             ELSE <<SubSeq(s, i, k - 1)>>
                  \o SplitFrom(s, IF CharAt(s, k) = "\r" /\ CharAt(s, k + 1) = "\n"
                                  THEN k + 2 ELSE k + 1)

splitlines(s) == SplitFrom(s, 1)

(***************************************************************************)
(* JSON values (what json.loads returns and json.dumps renders)            *)
(*   str: v is the text        num: v is an integer    bool: v is BOOLEAN  *)
(*   null: Python None         list: v is a sequence of values             *)
(*   obj: v is a sequence of <<key, value>> pairs in insertion order       *)
(***************************************************************************)
JStr(s) == [t |-> "str", v |-> s]
JNum(n) == [t |-> "num", v |-> n]
JBool(b) == [t |-> "bool", v |-> b]
JList(items) == [t |-> "list", v |-> items]
JObj(pairs) == [t |-> "obj", v |-> pairs]
\* Python None
None == [t |-> "null", v |-> ""]

IsNone(x) == x.t = "null"
IsStr(x) == x.t = "str"
IsDict(x) == x.t = "obj"
IsList(x) == x.t = "list"

\* `key in d`
HasKey(d, key) == \E i \in 1..Len(d.v) : d.v[i][1] = key

\* d.get(key): the value, None when the key is absent
Get(d, key) ==
    IF HasKey(d, key)
    THEN d.v[CHOOSE i \in 1..Len(d.v) : d.v[i][1] = key][2]
    ELSE None

\* d[key] = value for the dict under construction: a repeated key keeps its
\* position and takes the last value
ObjPut(pairs, key, value) ==
    IF \E i \in 1..Len(pairs) : pairs[i][1] = key
    THEN [i \in 1..Len(pairs) |->
            IF pairs[i][1] = key THEN <<key, value>> ELSE pairs[i]]
    ELSE Append(pairs, <<key, value>>)

(***************************************************************************)
(* json.loads for the JSON subset the model feeds the host: objects,       *)
(* arrays, strings with the escapes \" \\ \/ \n \r \t, integers, true,     *)
(* false, null.  A scan returns [ok, val, pos]: pos is the index after     *)
(* the value.                                                              *)
(***************************************************************************)
ScanFail == [ok |-> FALSE, val |-> None, pos |-> 0]
ScanOk(value, next) == [ok |-> TRUE, val |-> value, pos |-> next]

RECURSIVE SkipWs(_, _)
SkipWs(s, i) ==
    IF i <= Len(s) /\ IsSpace(CharAt(s, i)) THEN SkipWs(s, i + 1) ELSE i

Digits == "0123456789"
IsDigit(c) == Len(c) = 1 /\ Contains(Digits, c)
DigitValue(c) == (CHOOSE i \in 1..10 : CharAt(Digits, i) = c) - 1

Unescape(c) ==
    CASE c = "n" -> "\n"
      [] c = "r" -> "\r"
      [] c = "t" -> "\t"
      [] c = "\"" -> "\""
      [] c = "\\" -> "\\"
      [] c = "/" -> "/"
      [] OTHER -> ""

RECURSIVE ScanString(_, _, _)

\* the string scan at its next stop k: a closing quote, a backslash or a raw
\* control character (0: the text ends inside the string)
ScanStringAt(s, i, acc, k) ==
    IF k = 0 THEN ScanFail
    ELSE IF CharAt(s, k) = "\"" THEN ScanOk(JStr(acc \o SubSeq(s, i, k - 1)), k + 1)
    ELSE IF CharAt(s, k) = "\\" /\ Unescape(CharAt(s, k + 1)) # ""
         THEN ScanString(s, k + 2,
                         acc \o SubSeq(s, i, k - 1) \o Unescape(CharAt(s, k + 1)))
    ELSE ScanFail

\* i is the index after the opening quote or after the last escape
ScanString(s, i, acc) ==
    ScanStringAt(s, i, acc, FindFirst(s, {"\"", "\\", "\n", "\r", "\t"}, i, Len(s)))

RECURSIVE ScanDigits(_, _, _)
ScanDigits(s, i, acc) ==
    IF IsDigit(CharAt(s, i))
    THEN ScanDigits(s, i + 1, 10 * acc + DigitValue(CharAt(s, i)))
    ELSE ScanOk(JNum(acc), i)

\* the digits r scanned from index j, after the sign if there is one
ScanNumberAt(s, j, neg, r) ==
    IF r.pos = j THEN ScanFail
    ELSE IF CharAt(s, j) = "0" /\ r.pos > j + 1 THEN ScanFail
    ELSE IF CharAt(s, r.pos) \in {".", "e", "E"} THEN ScanFail
    ELSE IF neg THEN ScanOk(JNum(0 - r.val.v), r.pos) ELSE r

\* an integer literal: no leading zero, optional minus sign
ScanNumber(s, i) ==
    IF CharAt(s, i) = "-"
    THEN ScanNumberAt(s, i + 1, TRUE, ScanDigits(s, i + 1, 0))
    ELSE ScanNumberAt(s, i, FALSE, ScanDigits(s, i, 0))

RECURSIVE ScanValue(_, _)
RECURSIVE ScanItems(_, _, _)
RECURSIVE ScanMembers(_, _, _)

\* after "{" and white space: k is the index of "}" or of the first key
ScanObject(s, k) ==
    IF CharAt(s, k) = "}" THEN ScanOk(JObj(<<>>), k + 1)
    ELSE ScanMembers(s, k, <<>>)

\* after "[" and white space: k is the index of "]" or of the first element
ScanArray(s, k) ==
    IF CharAt(s, k) = "]" THEN ScanOk(JList(<<>>), k + 1)
    ELSE ScanItems(s, k, <<>>)

\* the value that starts at index j with the character c
ScanValueAt(s, j, c) ==
    CASE c = "\"" -> ScanString(s, j + 1, "")
      [] c = "{" -> ScanObject(s, SkipWs(s, j + 1))
      [] c = "[" -> ScanArray(s, SkipWs(s, j + 1))
      [] c = "t" ->
            IF Slice(s, j, j + 3) = "true" THEN ScanOk(JBool(TRUE), j + 4)
            ELSE ScanFail
      [] c = "f" ->
            IF Slice(s, j, j + 4) = "false" THEN ScanOk(JBool(FALSE), j + 5)
            ELSE ScanFail
      [] c = "n" ->
            IF Slice(s, j, j + 3) = "null" THEN ScanOk(None, j + 4)
            ELSE ScanFail
      [] c = "-" \/ IsDigit(c) -> ScanNumber(s, j)
      [] OTHER -> ScanFail

ScanValueFrom(s, j) == ScanValueAt(s, j, CharAt(s, j))

ScanValue(s, i) == ScanValueFrom(s, SkipWs(s, i))

\* the array after its element r: k is the index of the "," or "]" due
ScanItemsAfter(s, acc, r, k) ==
    IF ~r.ok THEN ScanFail
    ELSE IF CharAt(s, k) = "," THEN ScanItems(s, k + 1, Append(acc, r.val))
    ELSE IF CharAt(s, k) = "]" THEN ScanOk(JList(Append(acc, r.val)), k + 1)
    ELSE ScanFail

ScanItemsWith(s, acc, r) == ScanItemsAfter(s, acc, r, SkipWs(s, r.pos))

\* i is the index where the next array element starts
ScanItems(s, i, acc) == ScanItemsWith(s, acc, ScanValue(s, i))

\* the object after its member key: r; k is the index of the "," or "}" due
ScanMembersAfter(s, acc, key, r, k) ==
    IF ~r.ok THEN ScanFail
    ELSE IF CharAt(s, k) = ","
         THEN ScanMembers(s, SkipWs(s, k + 1), ObjPut(acc, key.val.v, r.val))
    ELSE IF CharAt(s, k) = "}"
         THEN ScanOk(JObj(ObjPut(acc, key.val.v, r.val)), k + 1)
    ELSE ScanFail

ScanMembersWith(s, acc, key, r) ==
    ScanMembersAfter(s, acc, key, r, SkipWs(s, r.pos))

\* the member whose key was scanned: colon is the index where ":" is due
ScanMemberValue(s, acc, key, colon) ==
    IF CharAt(s, colon) # ":" THEN ScanFail
    ELSE ScanMembersWith(s, acc, key, ScanValue(s, colon + 1))

ScanMemberKey(s, acc, key) ==
    IF ~key.ok THEN ScanFail
    ELSE ScanMemberValue(s, acc, key, SkipWs(s, key.pos))

\* i is the index of the opening quote of the next member's key
ScanMembers(s, i, acc) ==
    IF CharAt(s, i) = "\"" THEN ScanMemberKey(s, acc, ScanString(s, i + 1, ""))
    ELSE ScanFail

\* the value scanned from the start of the text, if the text ends after it
ParsedText(text, r) ==
    IF r.ok /\ SkipWs(text, r.pos) > Len(text) THEN r.val ELSE None

\* try_parse_json: json.loads(text), None when the text is not one JSON value
try_parse_json(text) == ParsedText(text, ScanValue(text, 1))

(***************************************************************************)
(* json.dumps with the given item and key separators                       *)
(***************************************************************************)
EscapeChar(c) ==
    CASE c = "\"" -> "\\\""
      [] c = "\\" -> "\\\\"
      [] c = "\n" -> "\\n"
      [] c = "\r" -> "\\r"
      [] c = "\t" -> "\\t"
      [] OTHER -> c

RECURSIVE Escape(_)
Escape(s) ==
    IF Len(s) <= 1 THEN EscapeChar(s)
    ELSE Escape(SubSeq(s, 1, Len(s) \div 2))
         \o Escape(SubSeq(s, Len(s) \div 2 + 1, Len(s)))

Quote(s) == "\"" \o Escape(s) \o "\""

RECURSIVE json_dumps(_, _, _)
json_dumps(value, item_sep, key_sep) ==
    CASE value.t = "str" -> Quote(value.v)
      [] value.t = "num" -> ToString(value.v)
      [] value.t = "bool" -> (IF value.v THEN "true" ELSE "false")
      [] value.t = "null" -> "null"
      [] value.t = "list" ->
            "[" \o Join([i \in 1..Len(value.v) |->
                           json_dumps(value.v[i], item_sep, key_sep)], item_sep)
                \o "]"
      [] value.t = "obj" ->
            "{" \o Join([i \in 1..Len(value.v) |->
                           Quote(value.v[i][1]) \o key_sep
                           \o json_dumps(value.v[i][2], item_sep, key_sep)], item_sep)
                \o "}"

\* json.dumps(value, separators=(",", ":"))
dumps_compact(value) == json_dumps(value, ",", ":")

\* json.dumps(value)
dumps_default(value) == json_dumps(value, ", ", ": ")

\* Python truthiness of a JSON value (the operand test of `or`)
Truthy(value) ==
    CASE value.t = "str" -> Len(value.v) > 0
      [] value.t = "num" -> value.v # 0
      [] value.t = "bool" -> value.v
      [] value.t = "null" -> FALSE
      [] value.t = "list" -> Len(value.v) > 0
      [] value.t = "obj" -> Len(value.v) > 0

\* str(value) as an f-string renders it (scalars only)
PyStr(value) ==
    CASE value.t = "str" -> value.v
      [] value.t = "num" -> ToString(value.v)
      [] value.t = "bool" -> (IF value.v THEN "True" ELSE "False")
      [] value.t = "null" -> "None"

(***************************************************************************)
(* Static helpers of ClaudeCodeHost                                        *)
(***************************************************************************)

\* summarize(text, limit)
Truncated(flat, limit) ==
    IF Len(flat) <= limit THEN flat
    ELSE Slice(flat, 1, IF limit - 3 > 0 THEN limit - 3 ELSE 0) \o "..."

summarize(text, limit) == Truncated(strip(ReplaceChar(text, "\n", " ")), limit)

RiskKeywords ==
    <<"rm -rf", "drop table", "delete", "destroy", "production",
      "migrate", "rollback", "truncate", "sudo">>

\* looks_high_risk(prompt)
looks_high_risk(prompt) ==
    LET text == lower(prompt)
    IN  \E k \in 1..Len(RiskKeywords) : Contains(text, RiskKeywords[k])

\* extract_text(value): the extracted text, "" standing for Python None
\* (the function never returns an empty string)
RECURSIVE extract_text(_)
RECURSIVE ExtractFirst(_, _)
RECURSIVE ExtractParts(_)
RECURSIVE FirstOf(_, _, _)

\* `if extracted: return extracted`, else the loop goes on
FirstOf(extracted, value, keys) ==
    IF extracted # "" THEN extracted ELSE ExtractFirst(value, keys)

\* `a or b` on extracted texts
OrText(a, b) == IF a # "" THEN a ELSE b

\* `if extracted: parts.append(extracted)`
TextPart(extracted) == IF extracted # "" THEN <<extracted>> ELSE <<>>

\* the `for key in (...)` loop of extract_text: first key that yields text
ExtractFirst(value, keys) ==
    IF Len(keys) = 0 THEN ""
    ELSE FirstOf(extract_text(Get(value, Head(keys))), value, Tail(keys))

\* the `for item in value` loop of extract_text
ExtractParts(items) ==
    IF Len(items) = 0 THEN <<>>
    ELSE TextPart(extract_text(Head(items))) \o ExtractParts(Tail(items))

extract_text(value) ==
    CASE value.t = "str" -> strip(value.v)
      [] value.t = "obj" ->
            OrText(ExtractFirst(value, <<"text", "completion", "delta", "output">>),
                   OrText(extract_text(Get(value, "message")),
                          extract_text(Get(value, "content"))))
      [] value.t = "list" -> Join(ExtractParts(value.v), "\n")
      [] OTHER -> ""

\* compact_values that returns its input
compact_values_kept(values) == values

\* compact_values(values)
RECURSIVE CompactInto(_, _)
CompactInto(compact, values) ==
    IF Len(values) = 0 THEN compact
    ELSE LET value == Head(values)
         IN  IF value = "" THEN CompactInto(compact, Tail(values))
             ELSE IF Len(compact) > 0 /\ compact[Len(compact)] = value
                  THEN CompactInto(compact, Tail(values))
             ELSE CompactInto(Append(compact, value), Tail(values))

compact_values(values) == CompactInto(<<>>, values)

\* parse_prompt_input(line, parsed): the pair (prompt, context)
PromptText(prompt_value) ==
    IF IsStr(prompt_value) THEN prompt_value.v ELSE dumps_compact(prompt_value)

\* parse_prompt_input falling back to the raw line when the prompt is empty
parse_prompt_input_or_line(line, parsed) ==
    IF IsDict(parsed) /\ HasKey(parsed, "prompt") /\ PromptText(Get(parsed, "prompt")) # ""
    THEN [prompt |-> PromptText(Get(parsed, "prompt")),
          context |-> Get(parsed, "context")]
    ELSE [prompt |-> line, context |-> None]

parse_prompt_input(line, parsed) ==
    IF IsDict(parsed) /\ HasKey(parsed, "prompt")
    THEN [prompt |-> PromptText(Get(parsed, "prompt")),
          context |-> Get(parsed, "context")]
    ELSE [prompt |-> line, context |-> None]

\* the stripped, non-empty lines of the agent output
RECURSIVE StrippedLines(_)
StrippedLines(lines) ==
    IF Len(lines) = 0 THEN <<>>
    ELSE TextPart(strip(Head(lines))) \o StrippedLines(Tail(lines))

\* the event name of a structured line without text
EventName(parsed) ==
    IF Truthy(Get(parsed, "type")) THEN PyStr(Get(parsed, "type"))
    ELSE IF Truthy(Get(parsed, "event")) THEN PyStr(Get(parsed, "event"))
    ELSE IF Truthy(Get(parsed, "kind")) THEN PyStr(Get(parsed, "kind"))
    ELSE "event"

\* the `for line in lines` loop of parse_claude_output
RECURSIVE ClassifyLines(_, _, _)

\* one turn of the loop for a line that is a JSON object
ClassifyObject(parsed, extracted, rest, partials, event_markers) ==
    IF extracted # ""
    THEN ClassifyLines(rest, Append(partials, extracted), event_markers)
    ELSE ClassifyLines(rest, partials,
                       Append(event_markers, "claude:" \o EventName(parsed)))

\* one turn of the loop
ClassifyLine(line, parsed, rest, partials, event_markers) ==
    IF IsDict(parsed)
    THEN ClassifyObject(parsed, extract_text(parsed), rest, partials, event_markers)
    ELSE ClassifyLines(rest, Append(partials, line), event_markers)

ClassifyLines(lines, partials, event_markers) ==
    IF Len(lines) = 0
    THEN [partials |-> partials, event_markers |-> event_markers]
    ELSE ClassifyLine(Head(lines), try_parse_json(Head(lines)), Tail(lines),
                      partials, event_markers)

\* `result_text = ...` and the return of parse_claude_output
ParsedOutput(output, joined, partials, event_markers) ==
    [result_text |-> IF joined # "" THEN joined
                     ELSE IF strip(output) # "" THEN strip(output)
                     ELSE "Claude Code returned no output.",
     partials |-> partials,
     event_markers |-> event_markers]

CompactedOutput(output, partials, event_markers) ==
    ParsedOutput(output, strip(Join(partials, "\n")), partials, event_markers)

ClassifiedOutput(output, lists) ==
    CompactedOutput(output, compact_values(lists.partials),
                    compact_values(lists.event_markers))

\* parse_claude_output(output)
parse_claude_output(output) ==
    ClassifiedOutput(output, ClassifyLines(StrippedLines(splitlines(output)),
                                           <<>>, <<>>))

\* mock_output(prompt)
mock_output(prompt) ==
    LET task == summarize(prompt, 100)
    IN  Join(<<dumps_default(JObj(<< <<"event", JStr("analysis")>>,
                  <<"text", JStr("Planning implementation for task: " \o task)>> >>)),
               dumps_default(JObj(<< <<"event", JStr("edit")>>,
                  <<"text", JStr("Would update source files and add/adjust tests.")>> >>)),
               dumps_default(JObj(<< <<"event", JStr("final")>>,
                  <<"text", JStr("Mock Claude Code run completed successfully.")>> >>))>>,
             "\n")

(***************************************************************************)
(* json.dumps(value, indent=2, sort_keys=True)                             *)
(***************************************************************************)
\* the printable ASCII characters in code point order (the grave accent
\* cannot be written in a TLA+ string and is left out)
Ascii ==
    " !\"#$%&'()*+,-./0123456789:;<=>?@ABCDEFGHIJKLMNOPQRSTUVWXYZ[\\]^_abcdefghijklmnopqrstuvwxyz{|}~"

CodePoint(c) == FindFirst(Ascii, {c}, 1, Len(Ascii))

\* a < b on Python strings
StrLess(a, b) ==
    LET n == IF Len(a) < Len(b) THEN Len(a) ELSE Len(b)
        diff == {i \in 1..n : CharAt(a, i) # CharAt(b, i)}
        first == CHOOSE i \in diff : \A j \in diff : i <= j
    IN  IF diff = {} THEN Len(a) < Len(b)
        ELSE CodePoint(CharAt(a, first)) < CodePoint(CharAt(b, first))

\* the pairs of a dict ordered by key
RECURSIVE SortPairs(_)
SortPairs(pairs) ==
    IF Len(pairs) <= 1 THEN pairs
    ELSE LET least == CHOOSE i \in 1..Len(pairs) :
                         \A j \in 1..Len(pairs) :
                            j = i \/ StrLess(pairs[i][1], pairs[j][1])
             rest == [k \in 1..(Len(pairs) - 1) |->
                        IF k < least THEN pairs[k] ELSE pairs[k + 1]]
         IN  <<pairs[least]>> \o SortPairs(rest)

RECURSIVE Spaces(_)
Spaces(n) == IF n <= 0 THEN "" ELSE " " \o Spaces(n - 1)

RECURSIVE dumps_pretty(_, _)
dumps_pretty(value, level) ==
    CASE value.t = "list" /\ Len(value.v) > 0 ->
            "[\n" \o Join([i \in 1..Len(value.v) |->
                             Spaces(2 * (level + 1))
                             \o dumps_pretty(value.v[i], level + 1)], ",\n")
                  \o "\n" \o Spaces(2 * level) \o "]"
      [] value.t = "obj" /\ Len(value.v) > 0 ->
            LET pairs == SortPairs(value.v)
            IN  "{\n" \o Join([i \in 1..Len(pairs) |->
                                 Spaces(2 * (level + 1)) \o Quote(pairs[i][1]) \o ": "
                                 \o dumps_pretty(pairs[i][2], level + 1)], ",\n")
                      \o "\n" \o Spaces(2 * level) \o "}"
      [] OTHER -> dumps_compact(value)

(***************************************************************************)
(* Prompt composer, history store, mediator responses                      *)
(***************************************************************************)

\* self.history[-history_turns:]
LastEntries(history, n) ==
    IF Len(history) <= n THEN history
    ELSE SubSeq(history, Len(history) - n + 1, Len(history))

\* the sections list built by compose_prompt
compose_sections(opts, history, prompt, context, supervisor_note) ==
    LET recent == LastEntries(history, opts.history_turns)
        past == IF opts.carry_history /\ Len(history) > 0 /\ opts.history_turns > 0
                THEN <<"Recent middleware history:">>
                     \o [idx \in 1..Len(recent) |->
                           ToString(idx) \o ". Prompt: " \o recent[idx].prompt
                           \o "\n   Result: " \o recent[idx].result]
                ELSE <<>>
        task == <<"Task:\n" \o prompt>>
        guidance == IF strip(supervisor_note) # ""
                    THEN <<"Supervisor guidance:\n" \o strip(supervisor_note)>>
                    ELSE <<>>
        extra == IF ~IsNone(context)
                 THEN <<"Concerto context:\n"
                        \o (IF IsStr(context) THEN context.v
                            ELSE dumps_pretty(context, 0))>>
                 ELSE <<>>
    IN  past \o task \o guidance \o extra

\* compose_prompt(prompt, context, supervisor_note)
compose_prompt(opts, history, prompt, context, supervisor_note) ==
    Join(compose_sections(opts, history, prompt, context, supervisor_note), "\n\n")

\* max(1, history_turns * 2)
max_entries(opts) == IF opts.history_turns * 2 > 1 THEN opts.history_turns * 2 ELSE 1

\* record_history that records nothing
record_history_skipped(opts, history, prompt, result) == history

\* record_history without the trim
record_history_unbounded(opts, history, prompt, result) ==
    IF ~opts.carry_history THEN history
    ELSE Append(history, [prompt |-> summarize(prompt, 300),
                          result |-> summarize(result, 300)])

\* record_history(prompt, result): the new value of self.history
record_history(opts, history, prompt, result) ==
    IF ~opts.carry_history THEN history
    ELSE LET appended == Append(history, [prompt |-> summarize(prompt, 300),
                                          result |-> summarize(result, 300)])
         IN  IF Len(appended) > max_entries(opts)
             THEN SubSeq(appended, Len(appended) - max_entries(opts) + 1, Len(appended))
             ELSE appended

\* read_response: the answer a JSON object carries
ResponseValue(value, default) ==
    IF IsNone(value) THEN default
    ELSE IF IsStr(value) THEN strip(value.v)
    ELSE dumps_compact(value)

\* parsed.get("value"), or parsed.get("response") when that is None
ValueOrResponse(value, parsed) ==
    IF IsNone(value) THEN Get(parsed, "response") ELSE value

\* read_response once the line is stripped and parsed
ResponseOf(stripped, parsed, default) ==
    IF IsDict(parsed)
    THEN ResponseValue(ValueOrResponse(Get(parsed, "value"), parsed), default)
    ELSE IF stripped # "" THEN stripped ELSE default

ResponseText(stripped, default) ==
    ResponseOf(stripped, try_parse_json(stripped), default)

\* read_response(default) once read_line_with_timeout has returned `line`
\* (None, or JStr of the line read)
read_response(line, default) ==
    IF IsNone(line) THEN default ELSE ResponseText(strip(line.v), default)

\* the decisions request_approval accepts
ApprovalWords == {"y", "yes", "approve", "approved", "true", "1", "ok", "proceed"}

\* approval granted by default
ApprovalDefaultYes == "yes"

\* the default request_approval passes to read_response
ApprovalDefault == "no"

\* the question answered by default with its first option
QuestionDefaultOption == "Proceed as-is"

\* the default request_question passes to read_response
QuestionDefault == ""

\* request_approval declining on "no" only
approved_unless_no(line) ==
    lower(strip(read_response(line, ApprovalDefault))) \notin {"no", "n", "false", "0"}

\* the value request_approval returns for the line read
approved(line) == lower(strip(read_response(line, ApprovalDefault))) \in ApprovalWords

(***************************************************************************)
(* Bounds and the inputs the environment draws from                        *)
(***************************************************************************)
\* lines the supervising runtime writes to the host's stdin in one run
MaxLines == 2
\* lines that can sit unread in the stdin pipe
MaxPiped == 1

\* unread lines the pipe holds when the runtime notes the arrival of its
\* lines
MaxAhead == 2

\* the lines a supervising runtime may write (without the line terminator)
InputLines ==
    { "  ",
      "list files in repo",
      "Please DROP table users",
      "{\"prompt\":\"\"}",
      "{\"type\":\"response\",\"value\":\" Yes \"}",
      "{\"type\":\"response\",\"prompt\":\"\"}" }

\* what subprocess.run can do with the agent command
AgentRuns ==
    { [kind |-> "completed", returncode |-> 0, stderr |-> "warning: slow",
       stdout |-> "{\"type\":\"tool\"}\n{\"type\":\"tool\"}\n{\"type\":\"tool\"}\nalpha\nalpha\n{\"text\":\"beta\"}\ngamma\n"],
      [kind |-> "completed", returncode |-> 2, stderr |-> "boom\n", stdout |-> "alpha"],
      [kind |-> "not_found", returncode |-> 0, stderr |-> "", stdout |-> ""],
      [kind |-> "timeout", returncode |-> 0, stderr |-> "", stdout |-> ""] }

\* the HostOptions the model runs the host with; the response timeout is
\* read by the mediator waits only, so it is varied where they can happen
AllOptions ==
    { o \in [ mode : {"oneshot", "stream"},
              interactive : BOOLEAN,
              mock : BOOLEAN,
              claude_command : {"claude"},
              timeout_secs : {600},
              response_timeout_secs : {0, 30},
              history_turns : {1},
              max_partials : {2},
              carry_history : BOOLEAN ] :
        o.response_timeout_secs = 30 \/ (o.mode = "stream" /\ o.interactive) }

(***************************************************************************)
(* State                                                                   *)
(***************************************************************************)
VARIABLES
    options,          \* self.options
    session_counter,  \* self.session_counter
    history,          \* self.history
    pipe,             \* stdin: lines written by the runtime, not yet read by
                      \* the process (what select() sees)
    buffer,           \* stdin: lines read ahead into sys.stdin's buffer
    stdin_closed,     \* the runtime has closed the host's stdin
    env,              \* the runtime: the lines it may write, how many more,
                      \* how many non-blank lines it has written
    out,              \* stdout: the messages emitted so far
    pc,               \* where the host is: "read" (main loop, waiting for a
                      \* line), "question", "approval" (read_response),
                      \* "invoke" (subprocess.run), "exit" (run() returned)
    session,          \* process_prompt: session
    prompt,           \* process_prompt: prompt
    context,          \* process_prompt: context
    supervisor_note,  \* process_prompt: supervisor_note
    composed_prompt,  \* process_prompt: composed_prompt
    last_read         \* the latest read of stdin: who read ("main",
                      \* "question", "approval"), how it ended ("line",
                      \* "eof", "timeout") and the line read

vars == <<options, session_counter, history, pipe, buffer, stdin_closed, env,
          out, pc, session, prompt, context, supervisor_note, composed_prompt,
          last_read>>

locals == <<session, prompt, context, supervisor_note, composed_prompt>>

(***************************************************************************)
(* Messages (emit)                                                         *)
(***************************************************************************)
Progress(sess, stage, message) ==
    [type |-> "progress", session |-> sess, stage |-> stage, message |-> message]
Partial(sess, chunk) ==
    [type |-> "partial", session |-> sess, chunk |-> chunk]
Result(sess, text, elapsed_ms, command) ==
    [type |-> "result", session |-> sess, text |-> text,
     elapsed_ms |-> elapsed_ms, command |-> command]
SessionError(sess, message) ==
    [type |-> "error", session |-> sess, message |-> message]
PlainError(message) ==
    [type |-> "error", message |-> message]
Question(id, question, ctx, opts) ==
    [type |-> "question", id |-> id, question |-> question,
     context |-> ctx, options |-> opts]
Approval(id, description, risk_level) ==
    [type |-> "approval", id |-> id, description |-> description,
     risk_level |-> risk_level]

(***************************************************************************)
(* stdin                                                                   *)
(***************************************************************************)
\* stdin holds what the runtime wrote, in the pieces it wrote them: a piece
\* ends a line when it ends with the line terminator
Complete(piece) == piece # "" /\ SubSeq(piece, Len(piece), Len(piece)) = "\n"

\* the number of pieces that make up the first line of `pieces`
RECURSIVE LinePieces(_)
LinePieces(pieces) ==
    IF Len(pieces) = 0 THEN 0
    ELSE IF Complete(Head(pieces)) THEN 1
    ELSE 1 + LinePieces(Tail(pieces))

\* a line can be read without waiting: a whole line is there, or the rest
\* of one and the stream has ended
HasLine ==
    /\ buffer \o pipe # <<>>
    /\ \/ stdin_closed
       \/ \E i \in 1..Len(buffer \o pipe) : Complete((buffer \o pipe)[i])

\* what readline() returns when HasLine
NextLine == Join(SubSeq(buffer \o pipe, 1, LinePieces(buffer \o pipe)), "")

\* readline() that drops everything unread
TakeAllLines ==
    /\ buffer' = <<>>
    /\ pipe' = <<>>

\* readline(): a line that is whole in the buffer is taken from it; otherwise
\* the read of the pipe takes all that is there into the buffer
TakeLine ==
    IF /\ LinePieces(buffer) > 0
       /\ Complete(buffer[LinePieces(buffer)])
    THEN /\ buffer' = SubSeq(buffer, LinePieces(buffer) + 1, Len(buffer))
         /\ pipe' = pipe
    ELSE /\ buffer' = SubSeq(buffer \o pipe, LinePieces(buffer \o pipe) + 1,
                             Len(buffer \o pipe))
         /\ pipe' = <<>>

\* read_line_with_timeout(timeout_secs): the ways the call can return now.
\* Without a deadline it is a plain readline(); with one, select() watches
\* the pipe only and the call gives up when nothing arrives in time; once
\* select() has seen something the call is a plain readline() too.
read_line_with_timeout(timeout_secs) ==
    IF timeout_secs <= 0
    THEN IF HasLine THEN {"line"} ELSE IF stdin_closed THEN {"eof"} ELSE {}
    ELSE IF pipe # <<>> \/ stdin_closed
         THEN IF HasLine THEN {"line"} ELSE IF stdin_closed THEN {"eof"} ELSE {}
         ELSE {"timeout"}

\* max(0, self.options.response_timeout_secs)
response_timeout(opts) ==
    IF opts.response_timeout_secs > 0 THEN opts.response_timeout_secs ELSE 0

Read(by, how, line) == [by |-> by, how |-> how, line |-> line]

(***************************************************************************)
(* The supervising runtime                                                 *)
(***************************************************************************)
EnvSend(l) ==
    /\ ~stdin_closed
    /\ env.unsent > 0
    /\ Len(pipe) < MaxPiped
    /\ pipe' = Append(pipe, l \o "\n")
    /\ env' = [env EXCEPT !.unsent = @ - 1,
                          !.nonblank = IF strip(l) # "" THEN @ + 1 ELSE @]
    /\ UNCHANGED <<options, session_counter, history, buffer, stdin_closed,
                   out, pc, locals, last_read>>

\* the runtime writes a piece of a line: text without the line terminator,
\* or the terminator alone.  The piece joins the unfinished line at the end
\* of the pipe, if there is one.
EnvSendPiece(piece) ==
    /\ ~stdin_closed
    /\ env.unsent > 0
    /\ IF pipe # <<>> /\ ~Complete(pipe[Len(pipe)])
       THEN pipe' = [pipe EXCEPT ![Len(pipe)] = @ \o piece]
       ELSE /\ Len(pipe) < MaxPiped
            /\ pipe' = Append(pipe, piece)
    /\ env' = [env EXCEPT !.unsent = @ - 1]
    /\ UNCHANGED <<options, session_counter, history, buffer, stdin_closed,
                   out, pc, locals, last_read>>

\* the runtime writes a whole line, and notes when it arrived: where the
\* host was, in which session, and how many unread lines were ahead of it
EnvSendNoted(l) ==
    /\ ~stdin_closed
    /\ env.unsent > 0
    /\ Len(pipe) < MaxAhead
    /\ pipe' = Append(pipe, l \o "\n")
    /\ env' = [env EXCEPT !.unsent = @ - 1,
                          !.nonblank = IF strip(l) # "" THEN @ + 1 ELSE @,
                          !.arrived = Append(@, [at |-> pc,
                                                 session |-> session_counter,
                                                 ahead |-> Len(buffer) + Len(pipe)])]
    /\ UNCHANGED <<options, session_counter, history, buffer, stdin_closed,
                   out, pc, locals, last_read>>

\* the runtime closes the host's stdin and writes no more
EnvClose ==
    /\ ~stdin_closed
    /\ stdin_closed' = TRUE
    /\ env' = [env EXCEPT !.unsent = 0]
    /\ UNCHANGED <<options, session_counter, history, pipe, buffer,
                   out, pc, locals, last_read>>

(***************************************************************************)
(* ClaudeCodeHost.run and process_prompt                                   *)
(***************************************************************************)
\* the main loop's test, taking a line with a prompt field for a prompt
is_stray_response_without_prompt(parsed) ==
    /\ IsDict(parsed) /\ IsStr(Get(parsed, "type")) /\ Get(parsed, "type").v = "response"
    /\ ~HasKey(parsed, "prompt")

\* the main loop's test for a stray response message
is_stray_response(parsed) ==
    IsDict(parsed) /\ IsStr(Get(parsed, "type")) /\ Get(parsed, "type").v = "response"

\* a counter that is set rather than incremented
next_session_reused(counter) == IF counter = 0 THEN 1 ELSE counter

\* a counter that skips a number with every session
next_session_skipping(counter) == counter + 2

\* self.session_counter += 1
next_session(counter) == counter + 1

\* the guidance guard without the mode
asks_guidance_any_mode(opts) == opts.interactive

\* the guard of the guidance question
asks_guidance(opts) == opts.mode = "stream" /\ opts.interactive

\* the approval guard without the risk classification
needs_approval_always(opts, p) == opts.mode = "stream" /\ opts.interactive

\* the guard of the approval request
needs_approval(opts, p) ==
    opts.mode = "stream" /\ opts.interactive /\ looks_high_risk(p)

\* the locals of process_prompt once it has returned
EndSession ==
    /\ session' = 0
    /\ prompt' = ""
    /\ context' = None
    /\ supervisor_note' = ""
    /\ composed_prompt' = ""

\* process_prompt from compose_prompt to the call of invoke_claude, after the
\* messages o
Compose(o, sess, p, ctx, note) ==
    /\ composed_prompt' = compose_prompt(options, history, p, ctx, note)
    /\ out' = IF options.mode = "stream"
              THEN Append(o, Progress(sess, "invoke_claude", "Invoking Claude Code CLI"))
              ELSE o
    /\ pc' = "invoke"

\* process_prompt from the risk check on, after the messages o
RiskCheck(o, sess, p, ctx, note) ==
    IF needs_approval(options, p)
    THEN /\ out' = Append(o, Approval("session-" \o ToString(sess) \o "-approval",
                                      "High-risk task detected: " \o summarize(p, 160),
                                      "high"))
         /\ pc' = "approval"
         /\ composed_prompt' = composed_prompt
    ELSE Compose(o, sess, p, ctx, note)

\* main loop: a blank line
SkipBlank ==
    /\ pc = "read"
    /\ HasLine
    /\ strip(NextLine) = ""
    /\ TakeLine
    /\ last_read' = Read("main", "line", NextLine)
    /\ UNCHANGED <<options, session_counter, history, stdin_closed, env, out,
                   pc, locals>>

\* main loop: a response message outside a mediator wait
IgnoreStrayResponse ==
    /\ pc = "read"
    /\ HasLine
    /\ strip(NextLine) # ""
    /\ is_stray_response(try_parse_json(strip(NextLine)))
    /\ TakeLine
    /\ last_read' = Read("main", "line", NextLine)
    /\ UNCHANGED <<options, session_counter, history, stdin_closed, env, out,
                   pc, locals>>

\* main loop: a line whose prompt is empty
RejectEmptyPrompt ==
    /\ pc = "read"
    /\ HasLine
    /\ LET line == strip(NextLine)
           parsed == try_parse_json(line)
       IN  /\ line # ""
           /\ ~is_stray_response(parsed)
           /\ parse_prompt_input(line, parsed).prompt = ""
    /\ TakeLine
    /\ last_read' = Read("main", "line", NextLine)
    /\ out' = Append(out, PlainError("received empty prompt"))
    /\ UNCHANGED <<options, session_counter, history, stdin_closed, env,
                   pc, locals>>

\* main loop: a prompt; process_prompt runs up to its first wait
StartSession ==
    /\ pc = "read"
    /\ HasLine
    /\ LET line == strip(NextLine)
           parsed == try_parse_json(line)
           input == parse_prompt_input(line, parsed)
           sess == next_session(session_counter)
           received == IF options.mode = "stream"
                       THEN Append(out, Progress(sess, "received_prompt",
                                       "Prompt received by claude_code middleware"))
                       ELSE out
       IN  /\ line # ""
           /\ ~is_stray_response(parsed)
           /\ input.prompt # ""
           /\ session_counter' = sess
           /\ session' = sess
           /\ prompt' = input.prompt
           /\ context' = input.context
           /\ IF asks_guidance(options)
              THEN /\ out' = Append(received,
                                Question("session-" \o ToString(sess) \o "-question",
                                         "Any extra implementation guidance before I run Claude Code?",
                                         "Reply with one short instruction, or leave empty.",
                                         <<"Proceed as-is", "Prioritize safety", "Prioritize speed">>))
                   /\ pc' = "question"
                   /\ UNCHANGED <<supervisor_note, composed_prompt>>
              ELSE /\ supervisor_note' = ""
                   /\ RiskCheck(received, sess, input.prompt, input.context, "")
    /\ TakeLine
    /\ last_read' = Read("main", "line", NextLine)
    /\ UNCHANGED <<options, history, stdin_closed, env>>

\* main loop: end of input, run() returns
Exit ==
    /\ pc = "read"
    /\ ~HasLine
    /\ stdin_closed
    /\ pc' = "exit"
    /\ last_read' = Read("main", "eof", "")
    /\ UNCHANGED <<options, session_counter, history, pipe, buffer,
                   stdin_closed, env, out, locals>>

\* the line read_line_with_timeout returns: None, or the line read
Returned(how) == IF how = "line" THEN JStr(NextLine) ELSE None

\* the effect on stdin of a read that ended as `how`
ReadStdin(how) ==
    IF how = "line" THEN TakeLine ELSE UNCHANGED <<pipe, buffer>>

\* request_question returns; process_prompt runs on to its next wait
QuestionReturns(how) ==
    /\ pc = "question"
    /\ how \in read_line_with_timeout(response_timeout(options))
    /\ LET note == read_response(Returned(how), QuestionDefault)
           guided == IF note # ""
                     THEN Append(out, Progress(session, "supervisor_guidance",
                                               "Applied supervisor guidance"))
                     ELSE out
       IN  /\ supervisor_note' = note
           /\ RiskCheck(guided, session, prompt, context, note)
    /\ ReadStdin(how)
    /\ last_read' = Read("question", how, IF how = "line" THEN NextLine ELSE "")
    /\ UNCHANGED <<options, session_counter, history, stdin_closed, env,
                   session, prompt, context>>

\* request_approval returns; process_prompt runs on to invoke_claude, or
\* emits the rejection and returns
ApprovalReturns(how) ==
    /\ pc = "approval"
    /\ how \in read_line_with_timeout(response_timeout(options))
    /\ IF approved(Returned(how))
       THEN /\ Compose(out, session, prompt, context, supervisor_note)
            /\ UNCHANGED <<session, prompt, context, supervisor_note>>
       ELSE /\ out' = Append(out, SessionError(session,
                                  "Task rejected by supervisor approval handler"))
            /\ pc' = "read"
            /\ EndSession
    /\ ReadStdin(how)
    /\ last_read' = Read("approval", how, IF how = "line" THEN NextLine ELSE "")
    /\ UNCHANGED <<options, session_counter, history, stdin_closed, env>>

\* invoke_claude(prompt) when subprocess.run behaves as `run`: the output
\* returned, or the message of the RuntimeError raised
invoke_claude(opts, composed, run) ==
    IF opts.mock
    THEN [raised |-> FALSE, stdout |-> mock_output(composed), message |-> ""]
    ELSE CASE run.kind = "not_found" ->
                [raised |-> TRUE, stdout |-> "",
                 message |-> "Claude command not found: " \o opts.claude_command]
           [] run.kind = "timeout" ->
                [raised |-> TRUE, stdout |-> "",
                 message |-> "Claude command timed out after "
                             \o ToString(opts.timeout_secs) \o "s"]
           [] run.kind = "completed" /\ run.returncode # 0 ->
                [raised |-> TRUE, stdout |-> "",
                 message |-> "Claude command failed: "
                             \o (IF strip(run.stderr) # "" THEN strip(run.stderr)
                                 ELSE IF strip(run.stdout) # "" THEN strip(run.stdout)
                                 ELSE "exit code " \o ToString(run.returncode))]
           [] OTHER ->
                [raised |-> FALSE, stdout |-> run.stdout, message |-> ""]

\* the loop without its cap: every chunk is emitted
RECURSIVE PartialLoopUncapped(_, _, _)
PartialLoopUncapped(chunks, sent, cap) ==
    IF Len(chunks) = 0 THEN <<>>
    ELSE IF Head(chunks) = "" THEN PartialLoopUncapped(Tail(chunks), sent, cap)
    ELSE <<Head(chunks)>> \o PartialLoopUncapped(Tail(chunks), sent + 1, cap)

\* the `for chunk in partials` loop of process_prompt: the chunks emitted
RECURSIVE PartialLoop(_, _, _)
PartialLoop(chunks, sent, cap) ==
    IF Len(chunks) = 0 THEN <<>>
    ELSE IF sent >= cap THEN <<>>
    ELSE IF Head(chunks) = "" THEN PartialLoop(Tail(chunks), sent, cap)
    ELSE <<Head(chunks)>> \o PartialLoop(Tail(chunks), sent + 1, cap)

\* process_prompt emitting the partial messages before the event messages
session_output_partials_first(opts, sess, parsed, elapsed_ms) ==
    LET chunks == PartialLoop(parsed.partials, 0,
                              IF opts.max_partials > 0 THEN opts.max_partials ELSE 0)
        streamed == IF opts.mode = "stream"
                    THEN [i \in 1..Len(chunks) |-> Partial(sess, chunks[i])]
                         \o [i \in 1..Len(parsed.event_markers) |->
                               Progress(sess, "claude_event", parsed.event_markers[i])]
                    ELSE <<>>
    IN  Append(streamed, Result(sess, parsed.result_text, elapsed_ms, opts.claude_command))

\* the messages process_prompt emits once parse_claude_output has returned
\* `parsed`
session_output(opts, sess, parsed, elapsed_ms) ==
    LET chunks == PartialLoop(parsed.partials, 0,
                              IF opts.max_partials > 0 THEN opts.max_partials ELSE 0)
        streamed == IF opts.mode = "stream"
                    THEN [i \in 1..Len(parsed.event_markers) |->
                            Progress(sess, "claude_event", parsed.event_markers[i])]
                         \o [i \in 1..Len(chunks) |-> Partial(sess, chunks[i])]
                    ELSE <<>>
    IN  Append(streamed, Result(sess, parsed.result_text, elapsed_ms, opts.claude_command))

\* run() reporting the failure in a result message
session_failure_as_result(sess, message) ==
    Result(sess, "session failed: " \o message, 0, "")

\* run() without its error message: the failure is reported as progress
session_failure_unreported(sess, message) ==
    Progress(sess, "failed", "session failed: " \o message)

\* the message run() emits when process_prompt raises
session_failure(sess, message) == SessionError(sess, "session failed: " \o message)

\* the clock is not modelled: every session reports this elapsed_ms
ElapsedMs == 0

\* what subprocess.run can do in this run of the host; in mock mode it is
\* not called
Runs(opts) == IF opts.mock THEN {[kind |-> "unused"]} ELSE AgentRuns

\* invoke_claude returns; process_prompt parses, emits and records
InvokeReturns(run) ==
    /\ pc = "invoke"
    /\ LET invoked == invoke_claude(options, composed_prompt, run)
           parsed == parse_claude_output(invoked.stdout)
       IN  /\ ~invoked.raised
           /\ out' = out \o session_output(options, session, parsed, ElapsedMs)
           /\ history' = record_history(options, history, prompt, parsed.result_text)
    /\ pc' = "read"
    /\ EndSession
    /\ UNCHANGED <<options, session_counter, pipe, buffer, stdin_closed, env,
                   last_read>>

\* invoke_claude raises and run() has no except clause: the exception ends
\* the main loop
InvokeRaisesUncaught(run) ==
    /\ pc = "invoke"
    /\ invoke_claude(options, composed_prompt, run).raised
    /\ pc' = "exit"
    /\ EndSession
    /\ UNCHANGED <<options, session_counter, history, pipe, buffer,
                   stdin_closed, env, out, last_read>>

\* invoke_claude raises; run() reports the failed session
InvokeRaises(run) ==
    /\ pc = "invoke"
    /\ LET invoked == invoke_claude(options, composed_prompt, run)
       IN  /\ invoked.raised
           /\ out' = Append(out, session_failure(session, invoked.message))
    /\ pc' = "read"
    /\ EndSession
    /\ UNCHANGED <<options, session_counter, history, pipe, buffer,
                   stdin_closed, env, last_read>>

(***************************************************************************)
(* Specification                                                           *)
(***************************************************************************)
Init ==
    /\ options \in AllOptions
    /\ session_counter = 0
    /\ history = <<>>
    /\ pipe = <<>>
    /\ buffer = <<>>
    /\ stdin_closed = FALSE
    /\ env = [alphabet |-> InputLines, unsent |-> MaxLines, nonblank |-> 0]
    /\ out = <<>>
    /\ pc = "read"
    /\ session = 0
    /\ prompt = ""
    /\ context = None
    /\ supervisor_note = ""
    /\ composed_prompt = ""
    /\ last_read = Read("none", "none", "")

QuestionAnswered == QuestionReturns("line")
QuestionTimesOut == QuestionReturns("timeout")
QuestionAtEof == QuestionReturns("eof")
ApprovalAnswered == ApprovalReturns("line")
ApprovalTimesOut == ApprovalReturns("timeout")
ApprovalAtEof == ApprovalReturns("eof")
Send == \E l \in env.alphabet : EnvSend(l)
InvokeSucceeds == \E run \in Runs(options) : InvokeReturns(run)
InvokeFails == \E run \in Runs(options) : InvokeRaises(run)

Next ==
    \/ Send
    \/ EnvClose
    \/ SkipBlank
    \/ IgnoreStrayResponse
    \/ RejectEmptyPrompt
    \/ StartSession
    \/ Exit
    \/ QuestionAnswered
    \/ QuestionTimesOut
    \/ QuestionAtEof
    \/ ApprovalAnswered
    \/ ApprovalTimesOut
    \/ ApprovalAtEof
    \/ InvokeSucceeds
    \/ InvokeFails

Spec == Init /\ [][Next]_vars

\* the steps of the host process
Host ==
    \/ SkipBlank
    \/ IgnoreStrayResponse
    \/ RejectEmptyPrompt
    \/ StartSession
    \/ Exit
    \/ QuestionAnswered
    \/ QuestionTimesOut
    \/ QuestionAtEof
    \/ ApprovalAnswered
    \/ ApprovalTimesOut
    \/ ApprovalAtEof
    \/ InvokeSucceeds
    \/ InvokeFails

\* a step of the host process (the runtime's steps change env or close stdin)
HostStep == env' = env /\ stdin_closed' = stdin_closed

\* the host has a step to take: the main loop's readline() can return, a
\* mediator wait can return (a line, end of input or its deadline), or
\* subprocess.run is under way, which ends by its timeout at the latest
HostCanStep ==
    \/ pc = "read" /\ (HasLine \/ stdin_closed)
    \/ pc \in {"question", "approval"}
          /\ read_line_with_timeout(response_timeout(options)) # {}
    \/ pc = "invoke"

\* the host process keeps running: WF_vars(Host), written out with
\* HostCanStep for ENABLED <<Host>>_vars and HostStep for a step of Host
HostFair == []<>(~HostCanStep) \/ []<><<HostStep>>_vars

FairSpec == Init /\ [][Next]_vars /\ HostFair

(***************************************************************************)
(* Runs of the host dedicated to one part of it                            *)
(***************************************************************************)
\* the host after construction, with options from optionset, run by a
\* runtime that starts as given
StartWith(optionset, runtime) ==
    /\ options \in optionset
    /\ session_counter = 0
    /\ history = <<>>
    /\ pipe = <<>>
    /\ buffer = <<>>
    /\ stdin_closed = FALSE
    /\ env = runtime
    /\ out = <<>>
    /\ pc = "read"
    /\ session = 0
    /\ prompt = ""
    /\ context = None
    /\ supervisor_note = ""
    /\ composed_prompt = ""
    /\ last_read = Read("none", "none", "")

(***************************************************************************)
(* A long run of sessions: the history buffer                              *)
(***************************************************************************)
\* prompt lines the runtime writes in a run that fills the history buffer
MaxHistoryLines == 8

\* the n-th prompt line of the run: every session has a prompt of its own
HistoryLine(n) == "task " \o ToString(n)

\* oneshot sessions with the history depths 0, 1 and 3 (the default)
HistoryOptions ==
    [ mode : {"oneshot"},
      interactive : {FALSE},
      mock : BOOLEAN,
      claude_command : {"claude"},
      timeout_secs : {600},
      response_timeout_secs : {30},
      history_turns : {0, 1, 3},
      max_partials : {2},
      carry_history : BOOLEAN ]

\* the agent command completes, with exit code 0 or not
HistoryRuns == {run \in AgentRuns : run.kind = "completed"}

HistoryInit ==
    StartWith(HistoryOptions, [alphabet |-> {}, unsent |-> MaxHistoryLines, nonblank |-> 0])

HistoryNext ==
    \/ EnvSend(HistoryLine(MaxHistoryLines - env.unsent + 1))
    \/ EnvClose
    \/ StartSession
    \/ Exit
    \/ \E run \in HistoryRuns : InvokeReturns(run)
    \/ \E run \in HistoryRuns : InvokeRaises(run)

HistorySpec == HistoryInit /\ [][HistoryNext]_vars

(***************************************************************************)
(* One streamed session over the outputs an agent can print                *)
(***************************************************************************)
\* lines in the output of the agent command
MaxOutputLines == 3

\* the lines an agent prints: events without text, plain text, objects with
\* text, a blank line
OutputLines ==
    { "{\"type\":\"tool\"}",
      "{\"event\":\"step\",\"text\":\"\"}",
      "alpha",
      "{\"text\":\"alpha\"}",
      "{\"message\":{\"content\":[\" beta \"]}}",
      "  " }

\* the agent command exits with code 0 after printing up to MaxOutputLines
\* of these lines
ParserRuns ==
    { [kind |-> "completed", returncode |-> 0, stderr |-> "",
       stdout |-> Join(lines, "\n")] :
        lines \in UNION {[1..n -> OutputLines] : n \in 0..MaxOutputLines} }

\* stream mode without mediation, with the partial caps 0, 1, 2 and 32 (the
\* default)
ParserOptions ==
    [ mode : {"stream"},
      interactive : {FALSE},
      mock : {FALSE},
      claude_command : {"claude"},
      timeout_secs : {600},
      response_timeout_secs : {30},
      history_turns : {1},
      max_partials : {0, 1, 2, 32},
      carry_history : {FALSE} ]

\* the runtime provides the agent command, whose run is env.run, and writes
\* one prompt
ParserInit ==
    \E run \in ParserRuns :
        StartWith(ParserOptions,
                  [alphabet |-> {"list files in repo"}, unsent |-> 1, nonblank |-> 0,
                   run |-> run])

ParserNext ==
    \/ Send
    \/ EnvClose
    \/ StartSession
    \/ Exit
    \/ InvokeReturns(env.run)

ParserSpec == ParserInit /\ [][ParserNext]_vars

(***************************************************************************)
(* Mock mode                                                               *)
(***************************************************************************)
\* prompts as JSON lines and as a plain line
MockLines ==
    { "{\"prompt\":\"add a health check endpoint\"}",
      "{\"prompt\":\"list files in repo\"}",
      "add a health check endpoint" }

MockOptions ==
    [ mode : {"oneshot", "stream"},
      interactive : {FALSE},
      mock : {TRUE},
      claude_command : {"claude"},
      timeout_secs : {600},
      response_timeout_secs : {30},
      history_turns : {1},
      max_partials : {2},
      carry_history : BOOLEAN ]

\* the runtime submits lines of a non-empty set of these lines
MockInit ==
    \E lines \in SUBSET MockLines \ {{}} :
        StartWith(MockOptions, [alphabet |-> lines, unsent |-> MaxLines, nonblank |-> 0])

MockNext ==
    \/ Send
    \/ EnvClose
    \/ StartSession
    \/ Exit
    \/ InvokeSucceeds

MockSpec == MockInit /\ [][MockNext]_vars

(***************************************************************************)
(* Mediated sessions over a runtime that also writes lines piece by piece  *)
(***************************************************************************)
\* mock mode, stream mode with mediation; the response timeout is negative,
\* zero or positive.  The runtime writes prompts, a response message that
\* carries a prompt, and pieces of lines.
StdinInit ==
    StartWith([ mode : {"stream"},
                interactive : {TRUE},
                mock : {TRUE},
                claude_command : {"claude"},
                timeout_secs : {600},
                response_timeout_secs : {-1, 0, 30},
                history_turns : {1},
                max_partials : {2},
                carry_history : {FALSE} ],
              [alphabet |-> { "list files in repo",
                              "Please DROP table users",
                              "{\"type\":\"response\",\"prompt\":\"list files in repo\"}" },
               unsent |-> MaxLines + 1,
               nonblank |-> 0])

StdinNext ==
    \/ Send
    \/ \E piece \in {"y", "\n"} : EnvSendPiece(piece)
    \/ EnvClose
    \/ SkipBlank
    \/ IgnoreStrayResponse
    \/ StartSession
    \/ Exit
    \/ QuestionAnswered
    \/ QuestionTimesOut
    \/ QuestionAtEof
    \/ ApprovalAnswered
    \/ ApprovalTimesOut
    \/ ApprovalAtEof
    \/ InvokeSucceeds

StdinSpec == StdinInit /\ [][StdinNext]_vars

(***************************************************************************)
(* Mediated sessions and the arrival of the runtime's lines                *)
(***************************************************************************)
\* stream mode, with and without mediation, and a real agent command; the
\* runtime writes a high-risk prompt, a plain prompt and a reply that names
\* the question of session 1
MediatedInit ==
    StartWith([ mode : {"stream"},
                interactive : BOOLEAN,
                mock : {FALSE},
                claude_command : {"claude"},
                timeout_secs : {600},
                response_timeout_secs : {30},
                history_turns : {1},
                max_partials : {2},
                carry_history : {FALSE} ],
              [alphabet |-> { "Please DROP table users",
                              "list files in repo",
                              "{\"id\":\"session-1-question\",\"type\":\"response\",\"value\":\"yes\"}" },
               unsent |-> MaxLines + 1,
               nonblank |-> 0,
               arrived |-> <<>>])

MediatedNext ==
    \/ \E l \in env.alphabet : EnvSendNoted(l)
    \/ EnvClose
    \/ IgnoreStrayResponse
    \/ StartSession
    \/ Exit
    \/ QuestionAnswered
    \/ QuestionTimesOut
    \/ QuestionAtEof
    \/ ApprovalAnswered
    \/ ApprovalTimesOut
    \/ ApprovalAtEof
    \/ \E run \in HistoryRuns : InvokeReturns(run)
    \/ \E run \in HistoryRuns : InvokeRaises(run)

MediatedSpec == MediatedInit /\ [][MediatedNext]_vars

(***************************************************************************)
(* Vocabulary of the properties                                            *)
(***************************************************************************)
IsTerminal(m) == m.type \in {"result", "error"}
HasSession(m) == "session" \in DOMAIN m
TerminalCount(o) == Len(SelectSeq(o, IsTerminal))
Last(o) == o[Len(o)]

\* the messages of `o` that carry session k
OfSession(o, k) == SelectSeq(o, LAMBDA m : HasSession(m) /\ m.session = k)

\* the messages a step appends to stdout
Emitted == SubSeq(out', Len(out) + 1, Len(out'))

\* a session is in progress
InSession == pc \in {"question", "approval", "invoke"}


\* the host takes a line in its main loop
MainReads == HostStep /\ pc = "read" /\ HasLine

\* JSON reading of an input line, for the properties
LineJson(line) == try_parse_json(strip(line))
DeclaresResponse(line) ==
    /\ IsDict(LineJson(line))
    /\ IsStr(Get(LineJson(line), "type"))
    /\ Get(LineJson(line), "type").v = "response"
HasEmptyPromptField(line) ==
    /\ IsDict(LineJson(line))
    /\ HasKey(LineJson(line), "prompt")
    /\ IsStr(Get(LineJson(line), "prompt"))
    /\ Get(LineJson(line), "prompt").v = ""

C1_Steps ==
    [][HostStep =>
        /\ (pc = "read" /\ HasLine /\ (strip(NextLine) = "" \/ DeclaresResponse(NextLine)))
              => out' = out /\ pc' = "read"
        /\ (pc = "read" /\ HasLine /\ strip(NextLine) # "" /\ ~DeclaresResponse(NextLine))
              => \/ /\ pc' = "read"
                    /\ Len(Emitted) = 1
                    /\ Emitted[1].type = "error"
                 \/ /\ InSession'
                    /\ TerminalCount(Emitted) = 0
                    /\ session_counter' = session_counter + 1
        /\ InSession
              => /\ session_counter' = session_counter
                 /\ TerminalCount(Emitted) = (IF InSession' THEN 0 ELSE 1)
                 /\ ~InSession' => /\ pc' = "read"
                                   /\ IsTerminal(Last(out'))
                                   /\ Last(out').session = session_counter
        /\ (pc = "read" /\ ~HasLine) => out' = out
      ]_vars

\* eventually: every session ends when the mediator waits have a deadline
\* or are not entered
C1_SessionsEnd ==
    (options.response_timeout_secs > 0 \/ ~(options.mode = "stream" /\ options.interactive))
        => (InSession ~> pc = "read")

Sessioned(o) == {i \in 1..Len(o) : HasSession(o[i])}

\* C2: session ids are strictly increasing and never reused.  The session
\* fields along stdout never decrease, the first one is 1, none exceeds the
\* counter, two terminal messages never carry the same session, and the
\* session in progress is the newest.
C2_SessionIdsIncrease ==
    /\ \A i, j \in Sessioned(out) : i < j => out[i].session <= out[j].session
    /\ \A i, j \in Sessioned(out) :
          (i < j /\ IsTerminal(out[i]) /\ IsTerminal(out[j]))
             => out[i].session < out[j].session
    /\ \A i \in Sessioned(out) :
          /\ out[i].session \in 1..session_counter
          /\ (\A j \in Sessioned(out) : i <= j) => out[i].session = 1
    /\ InSession =>
          /\ session = session_counter
          /\ \A i \in Sessioned(out) : IsTerminal(out[i]) => out[i].session < session

\* a second session has ended after a first
C2_Witness ==
    \E i, j \in Sessioned(out) :
        /\ IsTerminal(out[i]) /\ out[i].session = 1
        /\ IsTerminal(out[j]) /\ out[j].session = 2

(***************************************************************************)
(* C3                                                                      *)
(***************************************************************************)
\* the one message the main loop emits for an empty prompt
OnlyEmptyPromptError(emitted) ==
    /\ Len(emitted) = 1
    /\ emitted[1].type = "error"
    /\ Contains(emitted[1].message, "empty prompt")

\* C3 as stated: a blank line read by the main loop produces no message, and
\* a line that is a JSON object with an empty prompt field produces exactly
\* one empty-prompt error and nothing else.
C3_EmptyPromptAlwaysReported ==
    [][MainReads =>
        /\ strip(NextLine) = "" => out' = out
        /\ HasEmptyPromptField(NextLine) => OnlyEmptyPromptError(Emitted)
      ]_vars

\* C3 amended: the empty-prompt error is emitted for an object with an empty
\* prompt field unless the object declares type "response"; such a line is
\* discarded by the main loop without any message.  In neither case does a
\* session start.
C3_BlankAndEmptyPrompt ==
    [][MainReads =>
        /\ strip(NextLine) = "" => out' = out /\ pc' = "read"
        /\ (HasEmptyPromptField(NextLine) /\ ~DeclaresResponse(NextLine))
              => /\ OnlyEmptyPromptError(Emitted)
                 /\ pc' = "read"
                 /\ session_counter' = session_counter
        /\ (HasEmptyPromptField(NextLine) /\ DeclaresResponse(NextLine))
              => /\ out' = out
                 /\ pc' = "read"
                 /\ session_counter' = session_counter
      ]_vars

\* the main loop has reported an empty prompt and, later, skipped a blank line
C3_Witness ==
    /\ \E i \in 1..Len(out) : out[i] = PlainError("received empty prompt")
    /\ last_read.by = "main"
    /\ last_read.how = "line"
    /\ strip(last_read.line) = ""

(***************************************************************************)
(* C4                                                                      *)
(***************************************************************************)
\* a line the main loop takes as a prompt of its own
IsPromptLine(line) ==
    /\ strip(line) # ""
    /\ ~DeclaresResponse(line)
    /\ ~HasEmptyPromptField(line)

ResultTexts ==
    {parse_claude_output(invoke_claude(options, composed_prompt, run).stdout).result_text :
        run \in {r \in Runs(options) : ~invoke_claude(options, composed_prompt, r).raised}}

\* the messages of the exceptions the invocation under way can raise
FailureMessages ==
    {invoke_claude(options, composed_prompt, run).message :
        run \in {r \in Runs(options) : invoke_claude(options, composed_prompt, r).raised}}

\* C5: a result is emitted only by the step in which the invocation returns
\* and its output is parsed, as the last message and with the parsed text;
\* a step that reports a failed invocation or a declined approval emits the
\* error alone; and no session has two terminal messages.
C5_ResultOnlyAfterSuccess ==
    [][HostStep =>
        /\ (\E i \in 1..Len(Emitted) : Emitted[i].type = "result")
              => /\ pc = "invoke"
                 /\ Last(Emitted).type = "result"
                 /\ Last(Emitted).session = session
                 /\ Last(Emitted).text \in ResultTexts
                 /\ TerminalCount(Emitted) = 1
        /\ (pc = "invoke" /\ Last(out').type = "error")
              => /\ Emitted = <<SessionError(session, Last(out').message)>>
                 /\ \E message \in FailureMessages :
                       Last(out').message = "session failed: " \o message
        /\ (pc = "approval" /\ pc' = "read")
              => /\ Len(Emitted) = 1
                 /\ Emitted[1].type = "error"
                 /\ Emitted[1].session = session
        /\ \A i, j \in Sessioned(out') :
              (i # j /\ IsTerminal(out'[i]) /\ IsTerminal(out'[j]))
                 => out'[i].session # out'[j].session
      ]_vars

\* one session has ended in an error after a failed invocation, another in
\* a result
C5_Witness ==
    \E i, j \in Sessioned(out) :
        /\ out[i].type = "error"
        /\ StartsWith(out[i].message, "session failed: ")
        /\ out[j].type = "result"

(***************************************************************************)
(* C6                                                                      *)
(***************************************************************************)
\* C6: in oneshot mode only result and error messages are emitted and no
\* mediator wait takes place, so none reads a line.
C6_OneshotIsQuiet ==
    options.mode = "oneshot" =>
        /\ \A i \in 1..Len(out) : out[i].type \in {"result", "error"}
        /\ pc \notin {"question", "approval"}
        /\ last_read.by \notin {"question", "approval"}

\* oneshot and interactive: a high-risk prompt has been answered with a
\* result and a second session has ended
C6_Witness ==
    /\ options.mode = "oneshot"
    /\ options.interactive
    /\ session_counter = 2
    /\ pc = "exit"
    /\ \E i \in 1..Len(out) :
          out[i].type = "result" /\ Contains(out[i].text, "DROP table")

(***************************************************************************)
(* C7                                                                      *)
(***************************************************************************)
\* the keyword set of the risk classification
HighRiskKeywords ==
    {"rm -rf", "drop table", "delete", "destroy", "production",
     "migrate", "rollback", "truncate", "sudo"}

\* case-insensitive substring match against the keyword set
IsHighRisk(text) == \E k \in HighRiskKeywords : Contains(lower(text), k)

\* how many messages of stdout have the type and the id
CountWithId(o, type, id) ==
    Cardinality({i \in 1..Len(o) : o[i].type = type /\ o[i].id = id})

Mediated == options.mode = "stream" /\ options.interactive

\* C7: questions and approvals are emitted in stream mode with interactivity
\* only; an approval request, the last message when it is emitted, is
\* emitted only on entering the approval wait, which is entered only for a
\* high-risk prompt; and with mediation every session has exactly one
\* question and at most one approval.
C7_MediatorGating ==
    /\ \A i \in 1..Len(out) : out[i].type \in {"question", "approval"} => Mediated
    /\ (Len(out) > 0 /\ Last(out).type = "approval") => pc = "approval"
    /\ pc = "approval" => (Last(out).type = "approval" /\ IsHighRisk(prompt))
    /\ pc = "question" => Last(out).type = "question"
    /\ Mediated =>
          /\ Cardinality({i \in 1..Len(out) : out[i].type = "question"}) = session_counter
          /\ \A k \in 1..session_counter :
                /\ CountWithId(out, "question", "session-" \o ToString(k) \o "-question") = 1
                /\ CountWithId(out, "approval", "session-" \o ToString(k) \o "-approval") <= 1
          /\ \A i \in 1..Len(out) : out[i].type = "approval" =>
                \E k \in 1..session_counter :
                    out[i].id = "session-" \o ToString(k) \o "-approval"

\* with mediation, a session without approval has ended and a second one
\* waits for its approval
C7_Witness ==
    /\ Mediated
    /\ session_counter = 2
    /\ pc = "approval"
    /\ Cardinality({i \in 1..Len(out) : out[i].type = "approval"}) = 1

(***************************************************************************)
(* C8                                                                      *)
(***************************************************************************)
\* the wait for a response has a deadline and select() sees nothing before
\* it: the runtime has written no line that is still in the pipe and has not
\* closed stdin
NothingArrives ==
    /\ options.response_timeout_secs > 0
    /\ pipe = <<>>
    /\ ~stdin_closed

\* the messages of session k that belong to an invocation
InvocationMessages(o, k) ==
    {i \in Sessioned(o) :
        /\ o[i].session = k
        /\ \/ o[i].type \in {"partial", "result"}
           \/ o[i].type = "progress" /\ o[i].stage \in {"invoke_claude", "claude_event"}}

\* C8: an approval wait that times out counts as a rejection.  The step in
\* which the wait ends by its deadline emits the session's error and nothing
\* else and ends the session, which has no invoke progress, partial or result.
C8_ApprovalTimeoutRejects ==
    [][(HostStep /\ pc = "approval" /\ NothingArrives) =>
        /\ last_read' = Read("approval", "timeout", "")
        /\ Len(Emitted) = 1
        /\ Emitted[1].type = "error"
        /\ Emitted[1].session = session
        /\ TerminalCount(OfSession(out', session)) = 1
        /\ InvocationMessages(out', session) = {}
        /\ pc' = "read"
        /\ composed_prompt' = ""
      ]_vars

\* an approval wait has timed out and its session has ended
C8_Witness ==
    /\ last_read = Read("approval", "timeout", "")
    /\ pc = "read"
    /\ Last(out).type = "error"
    /\ Last(out).session = session_counter

(***************************************************************************)
(* C9                                                                      *)
(***************************************************************************)
\* the answers that approve
Approving == {"y", "yes", "approve", "approved", "true", "1", "ok", "proceed"}

\* the text of the value a JSON object answers with
AnswerText(value) == IF IsStr(value) THEN value.v ELSE dumps_compact(value)

\* the line is an answer whose lowercased, trimmed text approves: the value
\* or response field of a JSON object, else the line itself
ApprovingObject(json) ==
    \/ /\ ~IsNone(Get(json, "value"))
       /\ lower(strip(AnswerText(Get(json, "value")))) \in Approving
    \/ /\ IsNone(Get(json, "value"))
       /\ ~IsNone(Get(json, "response"))
       /\ lower(strip(AnswerText(Get(json, "response")))) \in Approving

ApprovingLine(line) ==
    IF IsDict(LineJson(line)) THEN ApprovingObject(LineJson(line))
    ELSE lower(strip(line)) \in Approving

\* the latest read of stdin is an approval wait that got an approving answer
ApprovalGiven ==
    /\ last_read.by = "approval"
    /\ last_read.how = "line"
    /\ ApprovingLine(last_read.line)

\* C9: with mediation the agent is invoked for a high-risk prompt only when
\* the approval wait of the session has just returned an approving answer;
\* after any other outcome of an approval wait the session is over, its
\* error is the last message, and nothing was invoked; after an approving
\* answer the session has gone on to the invocation.
C9_InvokedOnlyIfApproved ==
    /\ (Mediated /\ pc = "invoke" /\ IsHighRisk(prompt)) => ApprovalGiven
    /\ (last_read.by = "approval" /\ ~ApprovalGiven)
          => /\ pc \in {"read", "exit"}
             /\ Last(out).type = "error"
             /\ Last(out).session = session_counter
             /\ InvocationMessages(out, session_counter) = {}
    /\ (last_read.by = "approval" /\ ApprovalGiven)
          => InvocationMessages(out, session_counter) # {}

\* the agent is being invoked for a high-risk prompt after an approval
C9_Witness ==
    /\ Mediated
    /\ pc = "invoke"
    /\ IsHighRisk(prompt)
    /\ last_read = Read("approval", "line", "{\"type\":\"response\",\"value\":\" Yes \"}\n")

(***************************************************************************)
(* C10                                                                     *)
(***************************************************************************)
\* the line carries no answer: it is blank, or a JSON object with neither a
\* value nor a response field
NoAnswerLine(line) ==
    \/ strip(line) = ""
    \/ /\ IsDict(LineJson(line))
       /\ IsNone(Get(LineJson(line), "value"))
       /\ IsNone(Get(LineJson(line), "response"))

\* the read r is a question wait that ended with no response
Unanswered(r) ==
    /\ r.by = "question"
    /\ \/ r.how \in {"timeout", "eof"}
       \/ r.how = "line" /\ NoAnswerLine(r.line)

\* the composed prompt has a "Supervisor guidance:" section
HasGuidanceSection(text) ==
    \/ StartsWith(text, "Supervisor guidance:\n")
    \/ Contains(text, "\n\nSupervisor guidance:\n")

GuidanceProgress(o) ==
    {i \in 1..Len(o) : o[i].type = "progress" /\ o[i].stage = "supervisor_guidance"}

\* the step ends in the invocation of the agent with a prompt composed
\* without a guidance section
InvokesUnguided ==
    /\ pc' = "invoke"
    /\ composed_prompt' # ""
    /\ ~HasGuidanceSection(composed_prompt')
    /\ Last(out') = Progress(session, "invoke_claude", "Invoking Claude Code CLI")

\* C10 as stated: after a question wait that ends with no response the
\* session still proceeds to composition and invocation, the composed prompt
\* has no guidance section, and no supervisor_guidance progress is emitted.
C10_UnansweredStillInvokes ==
    [][HostStep =>
        /\ (pc = "question" /\ Unanswered(last_read'))
              => /\ GuidanceProgress(Emitted) = {}
                 /\ supervisor_note' = ""
                 /\ pc' = "approval" \/ InvokesUnguided
        /\ (pc = "approval" /\ Unanswered(last_read))
              => InvokesUnguided
      ]_vars

\* C10 amended: the session proceeds to composition and invocation unless
\* its prompt is high-risk and the approval is not given, in which case it
\* ends with the rejection error; when it proceeds, the composed prompt has
\* no guidance section.  No supervisor_guidance progress is emitted.
C10_UnansweredMeansNoGuidance ==
    [][HostStep =>
        /\ (pc = "question" /\ Unanswered(last_read'))
              => /\ GuidanceProgress(Emitted) = {}
                 /\ supervisor_note' = ""
                 /\ IF IsHighRisk(prompt) THEN pc' = "approval" ELSE InvokesUnguided
        /\ (pc = "approval" /\ Unanswered(last_read))
              => /\ GuidanceProgress(Emitted) = {}
                 /\ \/ InvokesUnguided
                    \/ /\ IsHighRisk(prompt)
                       /\ pc' = "read"
                       /\ Emitted = <<SessionError(session,
                                        "Task rejected by supervisor approval handler")>>
      ]_vars

\* a question wait has timed out and the agent is being invoked
C10_Witness ==
    /\ last_read = Read("question", "timeout", "")
    /\ pc = "invoke"
    /\ supervisor_note = ""
    /\ GuidanceProgress(out) = {}


(***************************************************************************)
(* C11                                                                     *)
(***************************************************************************)
\* the capacity of the history buffer
HistoryCapacity ==
    IF options.history_turns * 2 >= 1 THEN options.history_turns * 2 ELSE 1

\* C11: the history buffer never holds more entries than its capacity
\* max(1, history_turns * 2), which is 6 for history_turns = 3, after any mix
\* of successful and failed sessions; and a step that changes the buffer
\* appends one entry, dropping the oldest entry when the buffer is full.
C11_HistoryBounded ==
    /\ [](/\ Len(history) <= HistoryCapacity
          /\ options.history_turns = 3 => Len(history) <= 6)
    /\ [][history' # history =>
            /\ Len(history') > 0
            /\ IF Len(history) < HistoryCapacity
               THEN SubSeq(history', 1, Len(history') - 1) = history
               ELSE SubSeq(history', 1, Len(history') - 1) = Tail(history)
         ]_vars

\* history_turns = 3: the buffer is full, its oldest entry has been evicted,
\* and one of the sessions had failed
C11_Witness ==
    /\ options.history_turns = 3
    /\ Len(history) = 6
    /\ history[1].prompt # HistoryLine(1)
    /\ history[1].prompt # HistoryLine(2)
    /\ \E i \in 1..Len(out) : out[i].type = "error"


(***************************************************************************)
(* C12                                                                     *)
(***************************************************************************)
\* the step appends exactly one entry to the history buffer (the oldest
\* entry leaves when the buffer is full)
EntryAppended ==
    /\ Len(history') > 0
    /\ SubSeq(history', 1, Len(history') - 1)
          = (IF Len(history) < HistoryCapacity THEN history ELSE Tail(history))

\* C12 as stated: with history enabled, the step that ends a session which
\* has reached the composition stage appends exactly one entry, whether the
\* invocation returns or fails; every other step, and every step without
\* history, leaves the buffer as it is.
C12_EntryPerComposedSession ==
    [][HostStep =>
        IF options.carry_history /\ pc = "invoke"
        THEN EntryAppended
        ELSE history' = history
      ]_vars

\* C12 amended: the entry is appended by the step that emits the session's
\* result; a session whose invocation fails appends none, like a session
\* that exits before composition.
C12_EntryPerResult ==
    [][HostStep =>
        IF options.carry_history /\ pc = "invoke" /\ Last(out').type = "result"
        THEN EntryAppended
        ELSE history' = history
      ]_vars

\* with history enabled, one session has failed in its invocation and one
\* has ended in a result: the buffer holds one entry
C12_Witness ==
    /\ options.carry_history
    /\ pc = "read"
    /\ session_counter = 2
    /\ Len(history) = 1
    /\ \E i \in 1..Len(out) :
          out[i].type = "error" /\ StartsWith(out[i].message, "session failed: ")
    /\ \E i \in 1..Len(out) : out[i].type = "result"


(***************************************************************************)
(* C13                                                                     *)
(***************************************************************************)
\* the chunks of the partial messages among the messages o, in order
ChunksOf(o) ==
    LET partials == SelectSeq(o, LAMBDA m : m.type = "partial")
    IN  [i \in 1..Len(partials) |-> partials[i].chunk]

\* the first n entries of a list (all of them when it has fewer)
FirstEntries(list, n) == SubSeq(list, 1, IF n < Len(list) THEN n ELSE Len(list))

\* C13: the partial messages of a session are never more than max_partials
\* (none when the cap is 0), and their chunks are the first chunks of the
\* list the parser returned for the agent's output, in the list's order.
C13_PartialsCapped ==
    /\ [](Len(ChunksOf(out)) <= session_counter * options.max_partials)
    /\ [][(HostStep /\ pc = "invoke") =>
            /\ Len(ChunksOf(Emitted)) <= options.max_partials
            /\ ChunksOf(Emitted)
                  = FirstEntries(parse_claude_output(env.run.stdout).partials,
                                 options.max_partials)
            /\ \A i \in 1..Len(Emitted) :
                  Emitted[i].type = "partial" => Emitted[i].session = session
         ]_vars

\* the parser returned three chunks and the cap of 2 has cut the third
C13_Witness ==
    /\ options.max_partials = 2
    /\ env.run.stdout = "alpha\n{\"message\":{\"content\":[\" beta \"]}}\nalpha"
    /\ ChunksOf(out) = <<"alpha", "beta">>
    /\ Last(out).type = "result"
    /\ Last(out).text = "alpha\nbeta\nalpha"


(***************************************************************************)
(* C14                                                                     *)
(***************************************************************************)
\* the two lists of parse_claude_output as its loop leaves them, before
\* compaction
UncompactedLists(output) == ClassifyLines(StrippedLines(splitlines(output)), <<>>, <<>>)

\* the entries of a list that differ from the entry before them, in order
WithoutRepeats(list) ==
    LET kept == SelectSeq([i \in 1..Len(list) |-> i],
                          LAMBDA i : i = 1 \/ list[i] # list[i - 1])
    IN  [k \in 1..Len(kept) |-> list[kept[k]]]

\* a list without empty entries and without two equal neighbours that is
\* the list `values` with its consecutive duplicates removed
IsCompactionOf(list, values) ==
    /\ \A i \in 1..Len(list) : list[i] # ""
    /\ \A i \in 1..(Len(list) - 1) : list[i] # list[i + 1]
    /\ list = WithoutRepeats(values)

ParsedIsCompacted(parsed, uncompacted) ==
    /\ IsCompactionOf(parsed.partials, uncompacted.partials)
    /\ IsCompactionOf(parsed.event_markers, uncompacted.event_markers)

ThreeToolLines == "{\"type\":\"tool\"}\n{\"type\":\"tool\"}\n{\"type\":\"tool\"}"

\* C14: for every output of the agent the partials and the event markers
\* returned by the parser hold no empty entry and no two consecutive equal
\* entries, and each is the list in input order with only its consecutive
\* duplicates removed; three identical event lines leave one marker, and
\* the session emits exactly that one marker.
C14_ParserCompacts ==
    /\ ParsedIsCompacted(parse_claude_output(env.run.stdout),
                         UncompactedLists(env.run.stdout))
    /\ env.run.stdout = ThreeToolLines =>
          /\ parse_claude_output(env.run.stdout).event_markers = <<"claude:tool">>
          /\ Len(UncompactedLists(env.run.stdout).event_markers) = 3
          /\ Len(SelectSeq(out, LAMBDA m : m.type = "progress" /\ m.stage = "claude_event")) <= 1
    /\ (session_counter = 1 /\ pc = "read") =>
          LET events == SelectSeq(out, LAMBDA m : m.type = "progress" /\ m.stage = "claude_event")
          IN  [i \in 1..Len(events) |-> events[i].message]
                 = WithoutRepeats(UncompactedLists(env.run.stdout).event_markers)

\* the agent printed the same event line three times and the session has
\* emitted one progress message for it
C14_Witness ==
    /\ env.run.stdout = ThreeToolLines
    /\ Len(out) > 0
    /\ Last(out).type = "result"
    /\ Len(SelectSeq(out, LAMBDA m : m.type = "progress" /\ m.stage = "claude_event")) = 1
    /\ \E i \in 1..Len(out) :
          /\ out[i].type = "progress"
          /\ out[i].stage = "claude_event"
          /\ out[i].message = "claude:tool"


(***************************************************************************)
(* C15                                                                     *)
(***************************************************************************)
\* the three mock event texts for the input prompt p, joined by newline
MockTextFor(p) ==
    "Planning implementation for task: " \o summarize(p, 100)
       \o "\nWould update source files and add/adjust tests."
       \o "\nMock Claude Code run completed successfully."

\* the session in progress was started by a line {"prompt": P}
StartedByPromptObject ==
    /\ last_read.by = "main"
    /\ IsDict(LineJson(last_read.line))
    /\ IsStr(Get(LineJson(last_read.line), "prompt"))
    /\ Get(LineJson(last_read.line), "prompt").v = prompt

\* C15: in mock mode and oneshot mode a line {"prompt": P} with a short
\* single-line P yields exactly one message, a result whose text is the
\* three mock event texts joined by newline, the first being "Planning
\* implementation for task: " followed directly by the summary of P itself.
C15_MockTextEmbedsInputPrompt ==
    [][(HostStep /\ pc = "invoke" /\ options.mock /\ options.mode = "oneshot"
          /\ StartedByPromptObject) =>
            /\ Len(OfSession(out', session)) = 1
            /\ Last(out').type = "result"
            /\ Last(out').text = MockTextFor(prompt)
            /\ prompt = "add a health check endpoint" =>
                  StartsWith(Last(out').text,
                     "Planning implementation for task: add a health check endpoint\n")
      ]_vars


(***************************************************************************)
(* C16                                                                     *)
(***************************************************************************)
\* the prompt text the main loop takes from a line
PromptOfLine(line) == parse_prompt_input(strip(line), LineJson(line)).prompt

\* every line the runtime submits in this run carries the same prompt text
SamePromptEveryTime ==
    \A l1, l2 \in env.alphabet : PromptOfLine(l1) = PromptOfLine(l2)

\* C16: mock-mode idempotence.  When the identical prompt text is submitted
\* more than once in mock mode, the result messages of all these sessions
\* carry the same text, whatever sessions ran before and whether or not
\* history is carried.
C16_MockIdempotent ==
    (options.mock /\ SamePromptEveryTime) =>
        \A i, j \in 1..Len(out) :
            (out[i].type = "result" /\ out[j].type = "result") => out[i].text = out[j].text


(***************************************************************************)
(* C17                                                                     *)
(***************************************************************************)
\* the line carries a non-empty prompt field
HasPromptField(line) ==
    /\ IsDict(LineJson(line))
    /\ HasKey(LineJson(line), "prompt")
    /\ IsStr(Get(LineJson(line), "prompt"))
    /\ Get(LineJson(line), "prompt").v # ""

\* C17: a line read by the main loop, outside any mediator wait, that is a
\* JSON object declaring type "response" is discarded: no message is
\* emitted, no session starts and no agent invocation follows, even when
\* the line also carries a prompt field.
C17_StrayResponseDiscarded ==
    [][(MainReads /\ DeclaresResponse(NextLine)) =>
          /\ out' = out
          /\ pc' = "read"
          /\ session_counter' = session_counter
          /\ history' = history
          /\ <<session, prompt, context, supervisor_note, composed_prompt>>'
                = <<session, prompt, context, supervisor_note, composed_prompt>>
      ]_vars

\* the main loop has read a response message with a prompt field and has
\* emitted nothing
C17_Witness ==
    /\ last_read.by = "main"
    /\ last_read.how = "line"
    /\ DeclaresResponse(last_read.line)
    /\ HasPromptField(last_read.line)
    /\ pc = "read"
    /\ session_counter = 0
    /\ out = <<>>


(***************************************************************************)
(* C18                                                                     *)
(***************************************************************************)
\* the host is in a mediator wait
InWait == pc \in {"question", "approval"}

\* the ways the wait in progress can end now
WaitOutcomes == read_line_with_timeout(response_timeout(options))

\* with a response timeout of zero or less a wait never times out and ends
\* only on a line or the end of input, and nothing is emitted meanwhile
UnboundedWaitBlocks ==
    /\ []((InWait /\ options.response_timeout_secs <= 0) =>
             /\ "timeout" \notin WaitOutcomes
             /\ (~HasLine /\ ~stdin_closed) => WaitOutcomes = {})
    /\ [][(InWait /\ options.response_timeout_secs <= 0) =>
             /\ HostStep => /\ HasLine \/ stdin_closed
                            /\ last_read'.how \in {"line", "eof"}
             /\ out' # out => HostStep
         ]_vars

\* with a positive response timeout a wait can always end: by a line, by
\* the end of input, or by its deadline
BoundedWaitEnds ==
    [](InWait /\ options.response_timeout_secs > 0 => WaitOutcomes # {})

\* C18: with a response timeout of zero or less a mediator wait blocks
\* without a deadline (it never times out, it returns only when a line
\* arrives or the input ends, and the session emits nothing while no line
\* arrives); with a positive response timeout every mediator wait ends no
\* later than the timeout.
C18_WaitDeadlines == UnboundedWaitBlocks /\ BoundedWaitEnds


(***************************************************************************)
(* C19                                                                     *)
(***************************************************************************)
\* the place of a message in the order of a session
OrderRank(m) ==
    CASE m.type = "progress" /\ m.stage = "received_prompt" -> 1
      [] m.type = "question" -> 2
      [] m.type = "progress" /\ m.stage = "supervisor_guidance" -> 3
      [] m.type = "approval" -> 4
      [] m.type = "progress" /\ m.stage = "invoke_claude" -> 5
      [] m.type = "progress" /\ m.stage = "claude_event" -> 6
      [] m.type = "partial" -> 7
      [] OTHER -> 8

\* the message was emitted for session k
BelongsTo(m, k) ==
    IF HasSession(m) THEN m.session = k
    ELSE /\ m.type \in {"question", "approval"}
         /\ m.id = "session-" \o ToString(k) \o "-" \o m.type

\* message b may directly follow message a on stdout, n sessions having
\* started
MayFollow(a, b, n) ==
    IF OrderRank(a) = 8
    THEN \/ OrderRank(b) = 8 /\ ~HasSession(b)
         \/ /\ OrderRank(b) = 1
            /\ HasSession(a) => b.session > a.session
    ELSE /\ \E k \in 1..n : BelongsTo(a, k) /\ BelongsTo(b, k)
         /\ \/ OrderRank(b) > OrderRank(a)
            \/ OrderRank(b) = OrderRank(a) /\ OrderRank(a) \in {6, 7}
         /\ OrderRank(a) = 1 => OrderRank(b) = (IF options.interactive THEN 2 ELSE 5)
         /\ OrderRank(b) = 3 => OrderRank(a) = 2
         /\ OrderRank(b) = 4 => OrderRank(a) \in {2, 3}

\* the messages process_prompt emits after the agent has printed `output`:
\* the events in marker order, the partials in chunk order, the result
OrderedOutput(parsed) ==
    [i \in 1..Len(parsed.event_markers) |->
        Progress(session, "claude_event", parsed.event_markers[i])]
    \o [i \in 1..Len(FirstEntries(parsed.partials, options.max_partials)) |->
        Partial(session, parsed.partials[i])]
    \o <<Result(session, parsed.result_text, ElapsedMs, options.claude_command)>>

\* the prompt of the session in progress matches the keyword set
PromptIsHighRisk ==
    LET text == lower(prompt)
    IN  \E k \in HighRiskKeywords : Contains(text, k)

\* C19: in a stream-mode session the messages follow a fixed order:
\* progress(received_prompt); if interactive the question, then
\* progress(supervisor_guidance) only if the answer was non-empty, then the
\* approval if the prompt is high-risk; progress(invoke_claude); every
\* progress(claude_event) in marker order; every partial in chunk order;
\* the terminal result or error last, and nothing for the session after it.
C19_MessageOrder ==
    /\ [](options.mode = "stream" =>
            /\ out # <<>> => OrderRank(out[1]) \in {1, 8}
            /\ (pc = "read" /\ out # <<>>) => OrderRank(Last(out)) = 8)
    /\ [][(options.mode = "stream" /\ HostStep) =>
            /\ SubSeq(out', 1, Len(out)) = out
            /\ \A i \in 1..(Len(out') - 1) :
                  i >= Len(out) => MayFollow(out'[i], out'[i + 1], session_counter')
            /\ pc = "question" =>
                  /\ (\E i \in 1..Len(Emitted) : OrderRank(Emitted[i]) = 3)
                        <=> supervisor_note' # ""
                  /\ (\E i \in 1..Len(Emitted) : OrderRank(Emitted[i]) = 4)
                        <=> PromptIsHighRisk
            /\ (pc = "invoke" /\ Last(out').type = "result") =>
                  \E run \in HistoryRuns :
                      /\ run.returncode = 0
                      /\ Emitted = OrderedOutput(parse_claude_output(run.stdout))
         ]_vars

\* one session has emitted every kind of message: received_prompt,
\* question, supervisor_guidance, approval, invoke_claude, an event, two
\* partials and the result
C19_Witness ==
    /\ pc = "read"
    /\ session_counter = 1
    /\ [i \in 1..Len(out) |-> OrderRank(out[i])] = <<1, 2, 3, 4, 5, 6, 7, 7, 8>>
    /\ Last(out).type = "result"


(***************************************************************************)
(* C20                                                                     *)
(***************************************************************************)
\* what the runtime noted when it wrote the oldest unread line
OldestNote == env.arrived[Len(env.arrived) - Len(buffer \o pipe) + 1]

\* no line arrived earlier during the wait in which the oldest unread line
\* arrived
FirstOfItsWait ==
    \A j \in 1..(Len(env.arrived) - Len(buffer \o pipe)) :
        \/ env.arrived[j].at # OldestNote.at
        \/ env.arrived[j].session # OldestNote.session

\* a mediator wait returns a line
WaitTakesLine == HostStep /\ InWait /\ last_read'.how = "line"

\* a wait that returns a line consumes exactly one line, the oldest unread
\* one, and answers the request with it whatever id or type it carries; a
\* wait that ends otherwise consumes nothing
OneLinePerWait ==
    /\ WaitTakesLine =>
          /\ buffer' \o pipe' = Tail(buffer \o pipe)
          /\ last_read'.line = Head(buffer \o pipe)
          /\ pc = "question" =>
                supervisor_note' = read_response(JStr(Head(buffer \o pipe)), "")
          /\ pc = "approval" =>
                (pc' = "invoke" <=>
                   lower(read_response(JStr(Head(buffer \o pipe)), "no")) \in ApprovalWords)
    /\ (HostStep /\ InWait /\ last_read'.how # "line") =>
          buffer' \o pipe' = buffer \o pipe

\* C20 as stated: correlation is by arrival order.  Each mediator wait
\* consumes exactly one line, whatever id or type it carries, and a new
\* prompt line that arrives during a wait (the next line to arrive in its
\* window) is consumed as the response and never starts a session.
C20_ArrivalDuringWaitAnswers ==
    [][/\ OneLinePerWait
       /\ (HostStep /\ pc = "read" /\ session_counter' # session_counter) =>
             ~(OldestNote.at \in {"question", "approval"} /\ FirstOfItsWait)
      ]_vars

\* C20 amended: correlation is by read order.  A mediator wait that
\* returns a line consumes exactly one line, the oldest unread one,
\* whatever its id or type and whenever it arrived.  A line that arrives
\* during a wait with no unread line ahead of it is consumed by that wait;
\* a line that arrives behind an unread line is not: it stays for the next
\* read, and the main loop starts a session with it only in that case.
C20_OldestUnreadAnswers ==
    [][/\ OneLinePerWait
       /\ (HostStep /\ pc \in {"read", "question", "approval"}
             /\ last_read'.how = "line"
             /\ OldestNote.at \in {"question", "approval"}
             /\ OldestNote.ahead = 0) =>
                /\ pc = OldestNote.at
                /\ session_counter = OldestNote.session
       /\ (HostStep /\ pc = "read" /\ session_counter' # session_counter
             /\ OldestNote.at \in {"question", "approval"}) =>
                OldestNote.ahead > 0
      ]_vars

\* the question of session 1 timed out; the reply that names it arrived
\* during the approval wait of the session and has been taken as the
\* approval
C20_Witness ==
    /\ pc = "invoke"
    /\ session_counter = 1
    /\ supervisor_note = ""
    /\ last_read = Read("approval", "line",
          "{\"id\":\"session-1-question\",\"type\":\"response\",\"value\":\"yes\"}\n")
    /\ env.arrived[Len(env.arrived) - Len(buffer \o pipe)].at = "approval"
    /\ \E i \in 1..Len(out) : out[i].type = "question" /\ out[i].id = "session-1-question"


(***************************************************************************)
(* C21                                                                     *)
(***************************************************************************)
\* the main loop accepts the line as a non-empty prompt
AcceptedAsPrompt(line) ==
    /\ strip(line) # ""
    /\ ~DeclaresResponse(line)
    /\ PromptOfLine(line) # ""

\* the session numbers carried by the messages of stdout
SessionsOf(o) == {o[i].session : i \in Sessioned(o)}

\* every request in `emitted` names session k in its id
RequestsNameSession(emitted, k) ==
    \A i \in 1..Len(emitted) :
        /\ emitted[i].type = "question" =>
              emitted[i].id = "session-" \o ToString(k) \o "-question"
        /\ emitted[i].type = "approval" =>
              emitted[i].id = "session-" \o ToString(k) \o "-approval"

\* C21: blank lines, stray response lines and empty-prompt lines leave the
\* session counter and the history unchanged, so session ids are gap-free:
\* the k-th line accepted as a non-empty prompt gets session id k, the
\* empty-prompt error carries no session field, and the question and
\* approval ids of a session embed that session's number.
C21_SessionIdsGapFree ==
    /\ [](/\ SessionsOf(out) \in {1..session_counter, 1..(session_counter - 1)}
          /\ InSession => session = session_counter
          /\ \A i \in 1..Len(out) :
                (out[i].type = "error" /\ out[i].message = "received empty prompt")
                    => ~HasSession(out[i]))
    /\ [][HostStep =>
            /\ (MainReads /\ ~AcceptedAsPrompt(NextLine)) =>
                  /\ session_counter' = session_counter
                  /\ history' = history
                  /\ pc' = "read"
                  /\ IF strip(NextLine) = "" \/ DeclaresResponse(NextLine)
                     THEN out' = out
                     ELSE Emitted = <<[type |-> "error", message |-> "received empty prompt"]>>
            /\ (MainReads /\ AcceptedAsPrompt(NextLine)) =>
                  /\ session_counter' = session_counter + 1
                  /\ \A i \in 1..Len(Emitted) :
                        HasSession(Emitted[i]) => Emitted[i].session = session_counter + 1
            /\ ~MainReads => session_counter' = session_counter
            /\ RequestsNameSession(Emitted, session_counter')
         ]_vars

\* an empty-prompt line was rejected first, and the second line of the run
\* started session 1, whose question names it
C21_Witness ==
    /\ session_counter = 1
    /\ Len(out) >= 2
    /\ out[1] = [type |-> "error", message |-> "received empty prompt"]
    /\ \E i \in 1..Len(out) : out[i].type = "question" /\ out[i].id = "session-1-question"
    /\ SessionsOf(out) = {1}

====
